---- MODULE Spec2Model ----
(***************************************************************************)
(* Model of the agent executors of nmt-fastapi-a2a.                        *)
(*                                                                         *)
(* One request is served per behaviour: OAuthTokenMiddleware.dispatch      *)
(* stores the inbound token, AgentExecutor.execute (the same code in       *)
(* DirectorAgentExecutor and MCPAgentExecutor) drives the agent's          *)
(* asynchronous generator `stream` and translates every update it yields   *)
(* into events on the event queue.  The agent is DirectorAgent,            *)
(* WidgetsMCPAgent, or the scripted DummyAgent the executor tests install  *)
(* in their place.  The executor's cancel may be called at any time.       *)
(*                                                                         *)
(* A behaviour with agent = "Web" follows websocket_endpoint instead, the  *)
(* browser's client of the director, which holds a second copy of the      *)
(* director's chunk loop; no executor runs in such a behaviour.            *)
(*                                                                         *)
(* TwoRequestsSpec adds the dispatch of a second request of the same       *)
(* application, which binds the token in a context of its own.             *)
(*                                                                         *)
(* Python strings are TLA+ strings, f-strings are concatenations (\o).     *)
(* None is the empty sequence <<>> where a value is optional.              *)
(***************************************************************************)
EXTENDS Integers, Sequences, FiniteSets, TLC

VARIABLES
    agent,            \* which agent the executor drives ("Web": none, see above)
    initialized,      \* agent.initialized
    script,           \* DummyAgent._items still to be yielded
    OAUTH_TOKEN_CTX,  \* the context variable: <<>> (None) or <<token>>
    current_task,     \* context.current_task: <<>> (None) or <<task>>
    authorization,    \* the request's authorization header: <<>> (absent) or <<value>>
    otherRequestCtx,  \* OAUTH_TOKEN_CTX as bound in the context of another request
    task,             \* execute's local `task`: <<>> until set
    queue,            \* event_queue: the events enqueued, oldest first
    epc,              \* position of execute
    apc,              \* position of the agent's stream generator
    item,             \* the update the generator is suspended on: <<>> or <<update>>
    yielded,          \* every update the generator has yielded, in order
    headers,          \* stream's local `headers` (a set of <<key, value>>)
    agent_choice,     \* stream's local agent_choice.agent_id: <<>> or <<id>>
    content,          \* stream's local `content`
    selectCalls,      \* number of calls of _select_agent
    selectionError,   \* error text _select_agent raised: <<>> or <<text>>
    streamCalls,      \* requests passed to send_message_streaming, as <<headers>>
    chunksSeen,       \* chunks received from the downstream stream
    chunks,           \* the payloads of those chunks, oldest first
    downstreamRaised, \* error text of a downstream failure: <<>> or <<text>>
    mcpCalls,         \* calls of streamablehttp_client, as <<headers>>
    toolCalls,        \* number of calls of session.call_tool
    raised,           \* WidgetsMCPAgent.stream: exceptions of the raised group not yet
                      \* matched by an except* clause
    failure,          \* WidgetsMCPAgent.stream: what failed in the run, <<>> if nothing
    cancelError,      \* what a call of the executor's cancel raised: <<>> or <<text>>
    wpc,              \* position of websocket_endpoint ("off": not followed)
    wheaders,         \* websocket_endpoint's local `headers`
    wmessages,        \* messages received on the web socket
    wchunks,          \* payloads of the chunks received for the current message
    wsent             \* what send_text has sent since the current message arrived

vars == <<agent, initialized, script, OAUTH_TOKEN_CTX, current_task, authorization,
          otherRequestCtx, task, queue, epc, apc, item, yielded, headers, agent_choice,
          content, selectCalls, selectionError, streamCalls, chunksSeen, chunks,
          downstreamRaised, mcpCalls, toolCalls, raised, failure, cancelError, wpc,
          wheaders, wmessages, wchunks, wsent>>

-----------------------------------------------------------------------------
(* Bounds of the model *)

\* longest script of the DummyAgent
MaxUpdates == 2

\* most chunks one downstream stream delivers
MaxChunks == 2

\* most messages one web socket connection receives
MaxMessages == 2

-----------------------------------------------------------------------------
(* Values *)

None == <<>>

Some(v) == <<v>>

\* Python truthiness of an optional string
Truthy(opt) == opt # None /\ opt[1] # ""

\* `sub in s` for Python strings
Contains(s, sub) ==
    \E i \in 1..(Len(s) - Len(sub) + 1) : SubSeq(s, i, i + Len(sub) - 1) = sub

StartsWith(s, pre) == Len(s) >= Len(pre) /\ SubSeq(s, 1, Len(pre)) = pre

\* the tasks of the model: the one the request context already holds, and the
\* one new_task creates from the request message
ExistingTask == [type |-> "task", id |-> "task-0", context_id |-> "ctx-0"]

\* authorization header values of an inbound request (None: no header)
AuthHeaders == {None, Some(""), Some("Bearer abc")}

\* the header values followed for the request, by application.  dispatch is
\* the same code in both applications: the header with an empty value is
\* followed through the widgets application, whose runs are the shortest
RequestAuthHeaders(a) ==
    CASE a = "Widgets" -> AuthHeaders
      [] a = "Web"     -> {None}
      [] OTHER         -> {h \in AuthHeaders : h = None \/ Truthy(h)}

\* the authorization header of another request, which carries a token
OtherAuthHeaders == {Some("Bearer xyz")}

\* agent ids the selection model can answer
AgentIds == {"WidgetsAgent", "UNKNOWN"}

\* texts of the exceptions the collaborators raise
ErrTexts == {"A2A error", "agent selection failed"}

\* the one a downstream call or stream raises (test_agent.py: Exception("A2A error"))
DownstreamErrTexts == {"A2A error"}

\* contents the DummyAgent's updates carry
StubContents == {"A", "B", "need more"}

Update(complete, input, text) ==
    [is_task_complete |-> complete, require_user_input |-> input, content |-> text]

StubUpdates ==
    {Update(c, r, t) : c \in BOOLEAN, r \in BOOLEAN, t \in StubContents}

RECURSIVE SeqsUpTo(_, _)
SeqsUpTo(S, n) ==
    IF n = 0 THEN {<<>>}
    ELSE LET shorter == SeqsUpTo(S, n - 1)
         IN  shorter \cup {Append(s, x) : s \in {t \in shorter : Len(t) = n - 1}, x \in S}


-----------------------------------------------------------------------------
(* Chunk payloads: chunk.model_dump(mode="json", exclude_none=True) *)

TextPart(t) == [kind |-> "text", text |-> Some(t)]

\* the part lists an artifact of the model carries
PartLists ==
    { <<>>,
      <<TextPart("42 newtons")>>,
      <<[kind |-> "data", text |-> None], TextPart("42 newtons")>>,
      <<TextPart(""), TextPart("b")>>,
      <<[kind |-> "text", text |-> None]>>,
      <<[kind |-> "data", text |-> Some("d")]>>,
      <<TextPart("a"), TextPart("b")>> }

\* an optional artifact: None, or Some(parts)
Artifacts == {None} \cup {Some(l) : l \in PartLists}

\* an optional result: None, or Some of a mapping with optional lastChunk, artifact
\* (every artifact under a true lastChunk; two under an absent or false one)
Results ==
    {None}
    \cup {Some([lastChunk |-> Some(TRUE), artifact |-> a]) : a \in Artifacts}
    \cup {Some([lastChunk |-> lc, artifact |-> a]) :
            lc \in {None, Some(FALSE)}, a \in {None, Some(<<TextPart("42 newtons")>>)}}

\* the results that come with a top-level artifact as well (DummyChunk's shape)
ResultsBesideTopLevel ==
    {None}
    \cup {Some([lastChunk |-> lc, artifact |-> None]) : lc \in {Some(FALSE), Some(TRUE)}}
    \cup {Some([lastChunk |-> Some(TRUE), artifact |-> Some(l)]) :
            l \in {<<TextPart("42 newtons")>>, <<[kind |-> "text", text |-> None]>>}}

ChunkSet ==
    {[result |-> r, artifact |-> None] : r \in Results}
    \cup {[result |-> r, artifact |-> Some(<<TextPart("top")>>)] : r \in ResultsBesideTopLevel}

\* str() of the dumped mappings, as Python prints a dict
PartStr(p) ==
    "{'kind': '" \o p.kind \o "'"
        \o (IF p.text # None THEN ", 'text': '" \o p.text[1] \o "'" ELSE "") \o "}"

RECURSIVE PartsStr(_)
PartsStr(parts) ==
    IF parts = <<>> THEN ""
    ELSE PartStr(Head(parts))
            \o (IF Tail(parts) = <<>> THEN "" ELSE ", " \o PartsStr(Tail(parts)))

ArtifactStr(a) == "{'parts': [" \o PartsStr(a[1]) \o "]}"

BoolStr(b) == IF b THEN "True" ELSE "False"

ResultStr(r) ==
    LET lc  == IF r[1].lastChunk # None
               THEN "'lastChunk': " \o BoolStr(r[1].lastChunk[1]) ELSE ""
        art == IF r[1].artifact # None
               THEN "'artifact': " \o ArtifactStr(r[1].artifact) ELSE ""
    IN  "{" \o lc \o (IF lc # "" /\ art # "" THEN ", " ELSE "") \o art \o "}"

ChunkStr(chunk) ==
    LET res == IF chunk.result # None THEN "'result': " \o ResultStr(chunk.result) ELSE ""
        art == IF chunk.artifact # None
               THEN "'artifact': " \o ArtifactStr(chunk.artifact) ELSE ""
    IN  "{" \o res \o (IF res # "" /\ art # "" THEN ", " ELSE "") \o art \o "}"

\* `if result`: a mapping is truthy when it has a key
ResultTruthy(r) == r # None /\ (r[1].lastChunk # None \/ r[1].artifact # None)

\* the loop over parts: the text of the first part of kind "text" with a truthy
\* text replaces `content`; with no such part `content` is left as it was
RECURSIVE FirstText(_, _)
FirstText(parts, old) ==
    IF parts = <<>> THEN old
    ELSE IF Head(parts).kind = "text" /\ Truthy(Head(parts).text)
         THEN Head(parts).text[1]
         ELSE FirstText(Tail(parts), old)

\* (variant: the top-level artifact is looked at before result.artifact)
ChunkContent_TopLevelFirst(old, chunk) ==
    LET result == chunk.result
    IN  IF ResultTruthy(result) /\ result[1].lastChunk = Some(TRUE)
        THEN LET artifact == IF chunk.artifact # None THEN chunk.artifact
                             ELSE result[1].artifact
                 found == IF artifact # None THEN FirstText(artifact[1], old) ELSE old
             IN  IF found = "" THEN ChunkStr(chunk) ELSE found
        ELSE old

\* (variant: the text is taken from every chunk with a result, last or not)
ChunkContent_AnyChunk(old, chunk) ==
    LET result == chunk.result
    IN  IF ResultTruthy(result)
        THEN LET artifact == result[1].artifact
                 found == IF artifact # None THEN FirstText(artifact[1], old) ELSE old
             IN  IF found = "" THEN ChunkStr(chunk) ELSE found
        ELSE old

\* (variant: without the fallback to str(chunk_dict))
ChunkContent_NoFallback(old, chunk) ==
    LET result == chunk.result
    IN  IF ResultTruthy(result) /\ result[1].lastChunk = Some(TRUE)
        THEN LET artifact == result[1].artifact
             IN  IF artifact # None THEN FirstText(artifact[1], old) ELSE old
        ELSE old

\* the body of `async for chunk in stream_response` in DirectorAgent.stream:
\* the value of `content` after the chunk, given its value before
ChunkContent(old, chunk) ==
    LET result == chunk.result
    IN  IF ResultTruthy(result) /\ result[1].lastChunk = Some(TRUE)
        THEN LET artifact == result[1].artifact
                 found == IF artifact # None THEN FirstText(artifact[1], old) ELSE old
             IN  IF found = "" THEN ChunkStr(chunk) ELSE found
        ELSE old

\* the body of `async for chunk in stream_response` in websocket_endpoint:
\* `content` is set to "" for every chunk, then filled as in the director
WebChunkContent(chunk) ==
    LET result == chunk.result
        empty  == ""
    IN  IF ResultTruthy(result) /\ result[1].lastChunk = Some(TRUE)
        THEN LET artifact == result[1].artifact
                 found == IF artifact # None THEN FirstText(artifact[1], empty) ELSE empty
             IN  IF found = "" THEN ChunkStr(chunk) ELSE found
        ELSE empty

\* websocket_endpoint's `if result and result.get("lastChunk")`, inside which
\* alone it renders and sends
WebSends(chunk) == ResultTruthy(chunk.result) /\ chunk.result[1].lastChunk = Some(TRUE)

\* what send_text is given: the rendering of messages.html for one agent
\* message, or the literal error markup
MessageFragment(text) == [kind |-> "messages.html", text |-> text]

ErrorFragment(e) ==
    [kind |-> "literal",
     text |-> "<div class=\"msg agent\">Error contacting agent: " \o e \o "</div>"]

\* the oauth_token field of a message received on the web socket
WebTokens == {None, Some(""), Some("abc")}

\* headers["Authorization"] = f"Bearer {oauth_token}" for a truthy token
WebHeadersFor(token) ==
    IF Truthy(token) THEN {<<"Authorization", "Bearer " \o token[1]>>} ELSE {}

-----------------------------------------------------------------------------
(* Events of the event queue *)

new_task == [type |-> "task", id |-> "task-1", context_id |-> "ctx-1"]

new_agent_text_message(text, context_id, task_id) ==
    [role |-> "agent", text |-> text, context_id |-> context_id, task_id |-> task_id]

new_text_artifact(name, description, text) ==
    [name |-> name, description |-> description, text |-> text]

TaskStatusUpdateEvent(state, message, final, t) ==
    [type |-> "status", state |-> state, message |-> message, final |-> final,
     context_id |-> t.context_id, task_id |-> t.id]

\* (variant: the two ids are passed in each other's place)
TaskArtifactUpdateEvent_Swapped(artifact, t) ==
    [type |-> "artifact", append |-> FALSE, last_chunk |-> TRUE, artifact |-> artifact,
     context_id |-> t.id, task_id |-> t.context_id]

TaskArtifactUpdateEvent(artifact, t) ==
    [type |-> "artifact", append |-> FALSE, last_chunk |-> TRUE, artifact |-> artifact,
     context_id |-> t.context_id, task_id |-> t.id]

\* (variant: the completion flag is tested before the input flag)
TaskStateOf_CompleteFirst(u) ==
    IF ~u.is_task_complete /\ ~u.require_user_input THEN "working"
    ELSE IF u.is_task_complete THEN "completed"
    ELSE "input_required"

\* the branch execute takes for an update: if / elif / else over the two flags
TaskStateOf(u) ==
    IF ~u.is_task_complete /\ ~u.require_user_input THEN "working"
    ELSE IF u.require_user_input THEN "input_required"
    ELSE "completed"

\* (variant: the progress event is marked final)
WorkingEvent_Final(u, t) ==
    TaskStatusUpdateEvent("working",
        Some(new_agent_text_message(u.content, t.context_id, t.id)), TRUE, t)

WorkingEvent(u, t) ==
    TaskStatusUpdateEvent("working",
        Some(new_agent_text_message(u.content, t.context_id, t.id)), FALSE, t)

\* (variant: the prompt is sent without the update's content)
InputRequiredEvent_NoContent(u, t) ==
    TaskStatusUpdateEvent("input_required",
        Some(new_agent_text_message("", t.context_id, t.id)), TRUE, t)

InputRequiredEvent(u, t) ==
    TaskStatusUpdateEvent("input_required",
        Some(new_agent_text_message(u.content, t.context_id, t.id)), TRUE, t)

\* (variant: the artifact is sent as a chunk appended to an earlier one)
CompletedArtifactEvent_Append(u, t) ==
    [TaskArtifactUpdateEvent(
        new_text_artifact("current_result", "Result of request to agent.", u.content), t)
     EXCEPT !.append = TRUE]

CompletedArtifactEvent(u, t) ==
    TaskArtifactUpdateEvent(
        new_text_artifact("current_result", "Result of request to agent.", u.content), t)

\* (variant: the closing status event is not marked final)
CompletedStatusEvent_NotFinal(t) == TaskStatusUpdateEvent("completed", None, FALSE, t)

CompletedStatusEvent(t) == TaskStatusUpdateEvent("completed", None, TRUE, t)

-----------------------------------------------------------------------------
(* Updates of DirectorAgent.stream *)

InitFailedUpdate == Update(FALSE, TRUE, "Agent initialization failed.")

ProcessingUpdate == Update(FALSE, FALSE, "Processing request...")


\* (variant: the handlers report the failure without the error's text)
ErrorUpdate_NoText(e) == Update(FALSE, TRUE, "Error processing request")

ErrorUpdate(e) == Update(FALSE, TRUE, "Error processing request: " \o e)

\* (variant: the completed update leaves out the agent's name)
FinalUpdate_NoAgent(agent_id, text) == Update(TRUE, FALSE, "Agent response: " \o text \o ".")

FinalUpdate(agent_id, text) ==
    Update(TRUE, FALSE, "Agent " \o agent_id \o " response: " \o text \o ".")

\* the assert's message for an agent id with no client
UnknownAgentText(agent_id) == "Unknown agent_id: " \o agent_id

\* headers = {"Authorization": token} when the context holds a truthy token
\* (variant: the token is forwarded with an added scheme)
HeadersFor_WithScheme(token) ==
    IF Truthy(token) THEN {<<"Authorization", "Bearer " \o token[1]>>} ELSE {}

HeadersFor(token) ==
    IF Truthy(token) THEN {<<"Authorization", token[1]>>} ELSE {}

\* (variant: an id without client falls back to the widgets client)
ClientFor_Default(agent_id) == Some("widgets")

\* the a2a client chosen for an agent id: None when there is none
ClientFor(agent_id) == IF agent_id = "WidgetsAgent" THEN Some("widgets") ELSE None

-----------------------------------------------------------------------------
(* Updates of WidgetsMCPAgent.stream *)

WidgetsInitFailedUpdate ==
    Update(FALSE, TRUE, "Agent initialization failed. Please check the dependencies and logs.")

ToolFailedUpdate(text) == Update(TRUE, FALSE, "Tool call failed: " \o text)

ToolResultUpdate(text) == Update(TRUE, FALSE, text)

ConnectErrorUpdate(e) == Update(TRUE, FALSE, "Error connecting to MCP server: " \o e)

OtherErrorUpdate(e) == Update(TRUE, FALSE, "Error processing request: " \o e)

\* an exception: httpx.ConnectError or any other Exception, with its str()
Exc(kind, text) == [kind |-> kind, text |-> text]

\* what a failing step of the MCP session raises: one exception, or an
\* exception group (a task group of the transport) of several
RaisedGroups ==
    { <<Exc("connect", "conn")>>,
      <<Exc("other", "boom")>>,
      <<Exc("connect", "conn"), Exc("other", "boom")>>,
      <<Exc("other", "boom"), Exc("connect", "conn")>> }

\* results of session.call_tool: isError and the text of content[0]
ToolResults == {[isError |-> e, text |-> t] : e \in BOOLEAN, t \in {"hello", "failed"}}

\* the exceptions of a group an `except* <kind>` clause matches, and the rest
Matching(group, kind) == SelectSeq(group, LAMBDA x : x.kind = kind)

-----------------------------------------------------------------------------
(* Initial state: a request has arrived, nothing has run.  `initialized`    *)
(* is set by the constructors and cleared only by the tests; both values    *)
(* are kept because stream branches on it.                                  *)

Init ==
    /\ agent \in {"Director", "Widgets", "Stub", "Web"}
    /\ initialized \in (IF agent \in {"Stub", "Web"} THEN {TRUE} ELSE BOOLEAN)
    /\ script \in (IF agent = "Stub" THEN SeqsUpTo(StubUpdates, MaxUpdates) ELSE {<<>>})
    /\ OAUTH_TOKEN_CTX = None
    /\ current_task \in (IF agent = "Web" THEN {None} ELSE {None, Some(ExistingTask)})
    /\ authorization \in RequestAuthHeaders(agent)
    /\ otherRequestCtx = None
    /\ task = None
    /\ queue = <<>>
    /\ epc = (IF agent = "Web" THEN "off" ELSE "dispatch")
    /\ apc = "start"
    /\ item = None
    /\ yielded = <<>>
    /\ headers = {}
    /\ agent_choice = None
    /\ content = ""
    /\ selectCalls = 0
    /\ selectionError = None
    /\ streamCalls = <<>>
    /\ chunksSeen = 0
    /\ chunks = <<>>
    /\ downstreamRaised = None
    /\ mcpCalls = <<>>
    /\ toolCalls = 0
    /\ raised = <<>>
    /\ failure = <<>>
    /\ cancelError = None
    /\ wpc = (IF agent = "Web" THEN "receive" ELSE "off")
    /\ wheaders = {}
    /\ wmessages = 0
    /\ wchunks = <<>>
    /\ wsent = <<>>

requestVars == <<agent, initialized, current_task, authorization, otherRequestCtx>>

\* the locals of the generators and the record of their calls
directorVars == <<agent_choice, content, selectCalls, selectionError, streamCalls,
                  chunksSeen, chunks, downstreamRaised>>

widgetsVars == <<mcpCalls, toolCalls, raised, failure>>

agentLocals == <<headers, directorVars, widgetsVars, script>>

\* the generator protocol's variables
genVars == <<epc, apc, item, yielded>>

\* the variables of websocket_endpoint
webVars == <<wpc, wheaders, wmessages, wchunks, wsent>>

-----------------------------------------------------------------------------
(* OAuthTokenMiddleware.dispatch *)

dispatch ==
    /\ epc = "dispatch"
    /\ LET token == authorization
       IN  OAUTH_TOKEN_CTX' = IF Truthy(token) THEN token ELSE OAUTH_TOKEN_CTX
    /\ epc' = "start"
    /\ UNCHANGED <<webVars, cancelError, requestVars, agentLocals, task, queue, apc, item, yielded>>

\* (variant: the token is kept in a module global, which every request sees)
other_dispatch_Global ==
    /\ agent \in {"Director", "Widgets"}
    /\ \E token \in OtherAuthHeaders :
          /\ otherRequestCtx # token
          /\ otherRequestCtx' = IF Truthy(token) THEN token ELSE otherRequestCtx
          /\ OAUTH_TOKEN_CTX' = IF Truthy(token) THEN token ELSE OAUTH_TOKEN_CTX
    /\ UNCHANGED <<webVars, cancelError, agent, initialized, current_task, authorization,
                   agentLocals, genVars, task, queue>>

\* dispatch for another request of the same application (director.py and
\* widgets.py install the middleware), before this one or while this one is
\* served: OAUTH_TOKEN_CTX.set binds the variable in the context of the task
\* that serves that request, and in no other (a dispatch that stores the
\* token already stored changes nothing and is not followed)
other_dispatch ==
    /\ agent \in {"Director", "Widgets"}
    /\ \E token \in OtherAuthHeaders :
          /\ otherRequestCtx # token
          /\ otherRequestCtx' = IF Truthy(token) THEN token ELSE otherRequestCtx
    /\ UNCHANGED <<webVars, cancelError, agent, initialized, current_task, authorization,
                   agentLocals, genVars, OAUTH_TOKEN_CTX, task, queue>>

-----------------------------------------------------------------------------
(* AgentExecutor.execute *)

\* (variant: a new task is created whatever the request context holds)
execute_start_AlwaysNew ==
    /\ epc = "start"
    /\ task' = Some(new_task)
    /\ queue' = Append(queue, new_task)
    /\ epc' = "iter"
    /\ UNCHANGED <<webVars, cancelError, requestVars, agentLocals, OAUTH_TOKEN_CTX, apc, item, yielded>>

\* up to the `async for`: the task is the context's, or a new one that is enqueued
execute_start ==
    /\ epc = "start"
    /\ IF current_task = None
       THEN /\ task' = Some(new_task)
            /\ queue' = Append(queue, new_task)
       ELSE /\ task' = current_task
            /\ UNCHANGED queue
    /\ epc' = "iter"
    /\ UNCHANGED <<webVars, cancelError, requestVars, agentLocals, OAUTH_TOKEN_CTX, apc, item, yielded>>

execute_working ==
    /\ epc = "handle"
    /\ TaskStateOf(item[1]) = "working"
    /\ queue' = Append(queue, WorkingEvent(item[1], task[1]))
    /\ item' = None
    /\ epc' = "iter"
    /\ UNCHANGED <<webVars, cancelError, requestVars, agentLocals, OAUTH_TOKEN_CTX, task, apc, yielded>>

execute_input_required ==
    /\ epc = "handle"
    /\ TaskStateOf(item[1]) = "input_required"
    /\ queue' = Append(queue, InputRequiredEvent(item[1], task[1]))
    /\ item' = None
    /\ epc' = "iter"
    /\ UNCHANGED <<webVars, cancelError, requestVars, agentLocals, OAUTH_TOKEN_CTX, task, apc, yielded>>

\* the else branch, first enqueue_event: the artifact
execute_completed_artifact ==
    /\ epc = "handle"
    /\ TaskStateOf(item[1]) = "completed"
    /\ queue' = Append(queue, CompletedArtifactEvent(item[1], task[1]))
    /\ epc' = "completed_status"
    /\ UNCHANGED <<webVars, cancelError, requestVars, agentLocals, OAUTH_TOKEN_CTX, task, apc, item, yielded>>

\* the else branch, second enqueue_event: the final status
execute_completed_status ==
    /\ epc = "completed_status"
    /\ queue' = Append(queue, CompletedStatusEvent(task[1]))
    /\ item' = None
    /\ epc' = "iter"
    /\ UNCHANGED <<webVars, cancelError, requestVars, agentLocals, OAUTH_TOKEN_CTX, task, apc, yielded>>

-----------------------------------------------------------------------------
(* The generator protocol: execute awaits the next update (epc = "iter"),   *)
(* the generator runs to its next yield or to its end.                      *)

Yield(u, next) ==
    /\ item' = Some(u)
    /\ yielded' = Append(yielded, u)
    /\ apc' = next
    /\ epc' = "handle"

\* the generator returns: StopAsyncIteration ends the `async for` and execute
Return ==
    /\ apc' = "end"
    /\ epc' = "done"
    /\ UNCHANGED <<item, yielded>>

\* the generator goes on to its next suspension point without yielding
Continue(next) ==
    /\ apc' = next
    /\ UNCHANGED <<epc, item, yielded>>

Running(a, at) == agent = a /\ epc = "iter" /\ apc \in at

-----------------------------------------------------------------------------
(* DummyAgent.stream (the executor tests): yields its items in order *)

stub_stream ==
    /\ Running("Stub", {"start", "running"})
    /\ IF script # <<>>
       THEN /\ Yield(Head(script), "running")
            /\ script' = Tail(script)
       ELSE /\ Return
            /\ UNCHANGED script
    /\ UNCHANGED <<webVars, cancelError, requestVars, OAUTH_TOKEN_CTX, task, queue, headers, directorVars,
                   widgetsVars>>

\* (variant: execute reports a failed stream as a final status event)
stub_raises_Reported ==
    /\ Running("Stub", {"start"})
    /\ apc' = "raised"
    /\ epc' = "raised"
    /\ queue' = Append(queue, TaskStatusUpdateEvent("failed", None, TRUE, task[1]))
    /\ UNCHANGED <<webVars, cancelError, requestVars, OAUTH_TOKEN_CTX, task, item, yielded,
                   agentLocals>>

\* a stream that raises before its first yield: the `async for` of execute is
\* in no try, the exception leaves execute
stub_raises ==
    /\ Running("Stub", {"start"})
    /\ apc' = "raised"
    /\ epc' = "raised"
    /\ UNCHANGED <<webVars, cancelError, requestVars, OAUTH_TOKEN_CTX, task, queue, item,
                   yielded, agentLocals>>

-----------------------------------------------------------------------------
(* DirectorAgent.stream *)

\* (variant: a failed initialization ends the stream without an update)
director_begin_Silent ==
    /\ Running("Director", {"start"})
    /\ IF ~initialized
       THEN Return
       ELSE Yield(ProcessingUpdate, "processing")
    /\ UNCHANGED <<webVars, cancelError, requestVars, agentLocals, OAUTH_TOKEN_CTX, task, queue>>

\* entry: the initialization check, or the first yield inside the try
director_begin ==
    /\ Running("Director", {"start"})
    /\ IF ~initialized
       THEN Yield(InitFailedUpdate, "init_failed")
       ELSE Yield(ProcessingUpdate, "processing")
    /\ UNCHANGED <<webVars, cancelError, requestVars, agentLocals, OAUTH_TOKEN_CTX, task, queue>>

\* resumed after "Processing request...": the headers, then _select_agent, which
\* raises or answers an agent id; an id with no client fails the assert; both
\* failures reach the outer handler, which yields the error update
director_select ==
    /\ Running("Director", {"processing"})
    /\ headers' = HeadersFor(OAUTH_TOKEN_CTX)
    /\ selectCalls' = selectCalls + 1
    /\ \/ \E e \in ErrTexts :
            /\ selectionError' = Some(e)
            /\ Yield(ErrorUpdate(e), "outer_error")
            /\ UNCHANGED <<agent_choice, content>>
       \/ \E id \in AgentIds :
            /\ agent_choice' = Some(id)
            /\ UNCHANGED selectionError
            /\ IF ClientFor(id) # None
               THEN /\ content' = ""
                    /\ Continue("send")
               ELSE /\ Yield(ErrorUpdate(UnknownAgentText(id)), "outer_error")
                    /\ UNCHANGED content
    /\ UNCHANGED <<webVars, cancelError, requestVars, OAUTH_TOKEN_CTX, task, queue, streamCalls, chunksSeen, chunks,
                   downstreamRaised, widgetsVars, script>>

\* a2a_client.send_message_streaming(...): raises at the call (inner handler
\* yields the error update) or hands back the stream
director_send_message_streaming ==
    /\ Running("Director", {"send"})
    /\ streamCalls' = Append(streamCalls, headers)
    /\ \/ \E e \in DownstreamErrTexts :
            /\ downstreamRaised' = Some(e)
            /\ Yield(ErrorUpdate(e), "inner_error")
       \/ /\ Continue("streaming")
          /\ UNCHANGED downstreamRaised
    /\ UNCHANGED <<webVars, cancelError, requestVars, OAUTH_TOKEN_CTX, task, queue, headers, agent_choice, content,
                   selectCalls, selectionError, chunksSeen, chunks, widgetsVars, script>>

\* one iteration of `async for chunk in stream_response`
director_chunk ==
    /\ Running("Director", {"streaming"})
    /\ chunksSeen < MaxChunks
    /\ \E chunk \in ChunkSet :
          /\ content' = ChunkContent(content, chunk)
          /\ chunks' = Append(chunks, chunk)
    /\ chunksSeen' = chunksSeen + 1
    /\ UNCHANGED <<webVars, cancelError, requestVars, OAUTH_TOKEN_CTX, task, queue, genVars, headers, agent_choice,
                   selectCalls, selectionError, streamCalls, downstreamRaised, widgetsVars,
                   script>>

\* (variant: a stream that raises while it is iterated is opened once more)
director_stream_raises_Retry ==
    /\ Running("Director", {"streaming"})
    /\ \E e \in DownstreamErrTexts :
          /\ downstreamRaised' = Some(e)
          /\ IF Len(streamCalls) < 2
             THEN Continue("send")
             ELSE Yield(ErrorUpdate(e), "inner_error")
    /\ UNCHANGED <<webVars, cancelError, requestVars, OAUTH_TOKEN_CTX, task, queue, headers,
                   agent_choice, content, selectCalls, selectionError, streamCalls, chunksSeen,
                   chunks, widgetsVars, script>>

\* the downstream stream raises while it is iterated: the inner handler
director_stream_raises ==
    /\ Running("Director", {"streaming"})
    /\ \E e \in DownstreamErrTexts :
          /\ downstreamRaised' = Some(e)
          /\ Yield(ErrorUpdate(e), "inner_error")
    /\ UNCHANGED <<webVars, cancelError, requestVars, OAUTH_TOKEN_CTX, task, queue, headers, agent_choice, content,
                   selectCalls, selectionError, streamCalls, chunksSeen, chunks, widgetsVars,
                   script>>

\* the statement after the inner try: the completed update.  It is reached
\* when the downstream stream ends, and also when the generator is resumed
\* after the inner handler's yield, which is followed by no return
director_final ==
    /\ Running("Director", {"streaming", "inner_error"})
    /\ Yield(FinalUpdate(agent_choice[1], content), "final")
    /\ UNCHANGED <<webVars, cancelError, requestVars, agentLocals, OAUTH_TOKEN_CTX, task, queue>>

\* resumed after its last yield, the generator ends
director_return ==
    /\ Running("Director", {"init_failed", "outer_error", "final"})
    /\ Return
    /\ UNCHANGED <<webVars, cancelError, requestVars, agentLocals, OAUTH_TOKEN_CTX, task, queue>>

-----------------------------------------------------------------------------
(* WidgetsMCPAgent.stream *)

\* (variant: the stream starts without the initialization check)
widgets_begin_Unchecked ==
    /\ Running("Widgets", {"start"})
    /\ Yield(ProcessingUpdate, "processing")
    /\ UNCHANGED <<webVars, cancelError, requestVars, agentLocals, OAUTH_TOKEN_CTX, task, queue>>

\* entry: the initialization check, or the first yield (before the try)
widgets_begin ==
    /\ Running("Widgets", {"start"})
    /\ IF ~initialized
       THEN Yield(WidgetsInitFailedUpdate, "init_failed")
       ELSE Yield(ProcessingUpdate, "processing")
    /\ UNCHANGED <<webVars, cancelError, requestVars, agentLocals, OAUTH_TOKEN_CTX, task, queue>>

\* (variant: one clause, `except* Exception`, handles every group)
Raise_OneClause(group) ==
    /\ Yield(OtherErrorUpdate(group[1].text), "except_other")
    /\ raised' = <<>>

\* the except* clauses for a raised group: `except* httpx.ConnectError` takes
\* the connection errors and yields; what it leaves is for `except* Exception`
Raise(group) ==
    LET connect == Matching(group, "connect")
        other   == Matching(group, "other")
    IN  IF connect # <<>>
        THEN /\ Yield(ConnectErrorUpdate(connect[1].text), "except_connect")
             /\ raised' = other
        ELSE /\ Yield(OtherErrorUpdate(other[1].text), "except_other")
             /\ raised' = <<>>

\* resumed after "Processing request...": the headers, the transport and the
\* session are set up, the tools discovered and one selected; any of these
\* steps may raise
widgets_session ==
    /\ Running("Widgets", {"processing"})
    /\ headers' = HeadersFor(OAUTH_TOKEN_CTX)
    /\ mcpCalls' = Append(mcpCalls, headers')
    /\ \/ \E g \in RaisedGroups :
            /\ Raise(g)
            /\ failure' = g
       \/ /\ Continue("call_tool")
          /\ UNCHANGED <<raised, failure>>
    /\ UNCHANGED <<webVars, cancelError, requestVars, OAUTH_TOKEN_CTX, task, queue, directorVars, toolCalls,
                   script>>

\* session.call_tool and what follows it.  A raising call is logged and leaves
\* call_result None, which fails the assert after the session is closed (an
\* AssertionError without a message); closing the session may itself raise
widgets_call_tool ==
    /\ Running("Widgets", {"call_tool"})
    /\ toolCalls' = toolCalls + 1
    /\ \/ /\ Raise(<<Exc("other", "")>>)
          /\ failure' = <<Exc("call_tool", "boom")>>
       \/ \E g \in RaisedGroups :
            /\ Raise(g)
            /\ failure' = g
       \/ \E r \in ToolResults :
            /\ IF r.isError
               THEN /\ Yield(ToolFailedUpdate(r.text), "tool_failed")
                    /\ failure' = <<Exc("tool", r.text)>>
               ELSE /\ Yield(ToolResultUpdate(r.text), "result")
                    /\ UNCHANGED failure
            /\ UNCHANGED raised
    /\ UNCHANGED <<webVars, cancelError, requestVars, OAUTH_TOKEN_CTX, task, queue, headers, directorVars,
                   mcpCalls, script>>

\* resumed in the `except* httpx.ConnectError` clause: the rest of the group,
\* if any, goes to `except* Exception`, which yields in its turn
widgets_except_other ==
    /\ Running("Widgets", {"except_connect"})
    /\ raised # <<>>
    /\ Yield(OtherErrorUpdate(raised[1].text), "except_other")
    /\ raised' = <<>>
    /\ UNCHANGED <<webVars, cancelError, requestVars, OAUTH_TOKEN_CTX, task, queue, headers, directorVars,
                   mcpCalls, toolCalls, failure, script>>

\* resumed after its last yield, the generator ends
widgets_return ==
    /\ \/ Running("Widgets", {"init_failed", "tool_failed", "result", "except_other"})
       \/ Running("Widgets", {"except_connect"}) /\ raised = <<>>
    /\ Return
    /\ UNCHANGED <<webVars, cancelError, requestVars, agentLocals, OAUTH_TOKEN_CTX, task, queue>>

-----------------------------------------------------------------------------
(* AgentExecutor.cancel (DirectorAgentExecutor and MCPAgentExecutor alike):  *)
(* callable whatever execute is doing; it raises and touches nothing         *)

executorVars == <<requestVars, agentLocals, genVars, OAUTH_TOKEN_CTX, task, queue>>

\* (variant: the first cancel of a request that has a task marks it canceled
\* on the queue before it raises)
cancel_Canceled ==
    /\ agent # "Web"
    /\ cancelError' = Some("cancel not supported")
    /\ queue' = IF task # None /\ cancelError = None
                THEN Append(queue, TaskStatusUpdateEvent("canceled", None, TRUE, task[1]))
                ELSE queue
    /\ UNCHANGED <<webVars, requestVars, agentLocals, genVars, OAUTH_TOKEN_CTX, task>>

cancel ==
    /\ agent # "Web"
    /\ cancelError' = Some("cancel not supported")
    /\ UNCHANGED <<webVars, executorVars>>

-----------------------------------------------------------------------------
(* websocket_endpoint (web.py): the browser's client of the director *)

\* `data = await websocket.receive_json()`: a message arrives and its headers
\* are built, or the socket has gone and WebSocketDisconnect ends the handler
ws_receive_json ==
    /\ wpc = "receive"
    /\ \/ /\ wmessages < MaxMessages
          /\ \E oauth_token \in WebTokens : wheaders' = WebHeadersFor(oauth_token)
          /\ wmessages' = wmessages + 1
          /\ wchunks' = <<>>
          /\ wsent' = <<>>
          /\ wpc' = "card"
       \/ /\ wpc' = "closed"
          /\ UNCHANGED <<wheaders, wmessages, wchunks, wsent>>
    /\ UNCHANGED <<cancelError, executorVars>>

\* the httpx client, `await resolver.get_agent_card()` and the client and
\* request objects, all outside the inner try: an exception here leaves the
\* handler (the outer handler takes WebSocketDisconnect only)
ws_get_agent_card ==
    /\ wpc = "card"
    /\ \/ wpc' = "send"
       \/ wpc' = "failed"
    /\ UNCHANGED <<cancelError, executorVars, wheaders, wmessages, wchunks, wsent>>

\* client.send_message_streaming(...): raises (the error markup is sent and
\* the loop goes back to receive) or hands back the stream
ws_send_message_streaming ==
    /\ wpc = "send"
    /\ \/ \E e \in DownstreamErrTexts :
            /\ wsent' = Append(wsent, ErrorFragment(e))
            /\ wpc' = "receive"
       \/ /\ wpc' = "streaming"
          /\ UNCHANGED wsent
    /\ UNCHANGED <<cancelError, executorVars, wheaders, wmessages, wchunks>>

\* (variant: a fragment is sent for every chunk)
ws_chunk_EveryChunk ==
    /\ wpc = "streaming"
    /\ Len(wchunks) < MaxChunks
    /\ \E chunk \in ChunkSet :
          /\ wchunks' = Append(wchunks, chunk)
          /\ wsent' = Append(wsent, MessageFragment(WebChunkContent(chunk)))
    /\ UNCHANGED <<cancelError, executorVars, wpc, wheaders, wmessages>>

\* one iteration of `async for chunk in stream_response`
ws_chunk ==
    /\ wpc = "streaming"
    /\ Len(wchunks) < MaxChunks
    /\ \E chunk \in ChunkSet :
          /\ wchunks' = Append(wchunks, chunk)
          /\ wsent' = IF WebSends(chunk)
                      THEN Append(wsent, MessageFragment(WebChunkContent(chunk)))
                      ELSE wsent
    /\ UNCHANGED <<cancelError, executorVars, wpc, wheaders, wmessages>>

\* the stream raises while it is iterated
ws_stream_raises ==
    /\ wpc = "streaming"
    /\ \E e \in DownstreamErrTexts : wsent' = Append(wsent, ErrorFragment(e))
    /\ wpc' = "receive"
    /\ UNCHANGED <<cancelError, executorVars, wheaders, wmessages, wchunks>>

\* the stream ends: back to `while True`
ws_stream_end ==
    /\ wpc = "streaming"
    /\ wpc' = "receive"
    /\ UNCHANGED <<cancelError, executorVars, wheaders, wmessages, wchunks, wsent>>

-----------------------------------------------------------------------------

Next ==
    \/ dispatch
    \/ execute_start
    \/ execute_working
    \/ execute_input_required
    \/ execute_completed_artifact
    \/ execute_completed_status
    \/ stub_stream
    \/ stub_raises
    \/ director_begin
    \/ director_select
    \/ director_send_message_streaming
    \/ director_chunk
    \/ director_stream_raises
    \/ director_final
    \/ director_return
    \/ widgets_begin
    \/ widgets_session
    \/ widgets_call_tool
    \/ widgets_except_other
    \/ widgets_return
    \/ cancel
    \/ ws_receive_json
    \/ ws_get_agent_card
    \/ ws_send_message_streaming
    \/ ws_chunk
    \/ ws_stream_raises
    \/ ws_stream_end

Spec == Init /\ [][Next]_vars

\* the event loop runs whatever is runnable: execute and the generator do
\* not stop while they have a step to take
FairSpec == Spec /\ WF_vars(Next)

\* two requests of one application that installs the middleware (director.py,
\* widgets.py): the request that is followed, and another one whose dispatch
\* runs before it or while it is served
TwoRequestsInit == Init /\ agent \in {"Director", "Widgets"}

TwoRequestsNext ==
    \/ dispatch
    \/ other_dispatch
    \/ execute_start
    \/ execute_working
    \/ execute_input_required
    \/ execute_completed_artifact
    \/ execute_completed_status
    \/ director_begin
    \/ director_select
    \/ director_send_message_streaming
    \/ director_chunk
    \/ director_stream_raises
    \/ director_final
    \/ director_return
    \/ widgets_begin
    \/ widgets_session
    \/ widgets_call_tool
    \/ widgets_except_other
    \/ widgets_return

TwoRequestsSpec == TwoRequestsInit /\ [][TwoRequestsNext]_vars

-----------------------------------------------------------------------------
(* Properties *)

IsStatus(e) == e.type = "status"

IsArtifact(e) == e.type = "artifact"

IsFinal(e) == e.type = "status" /\ e.final

IsCompletedUpdate(u) == u.is_task_complete /\ ~u.require_user_input

\* the task every event of the request must name
RequestTask == IF current_task = None THEN new_task ELSE current_task[1]

\* C1: within one execute call of DirectorAgentExecutor or MCPAgentExecutor
\* (each over its own agent's stream), once a status-update event with
\* final=true is on the queue, no step enqueues a further event.
C1_NoEventAfterFinal ==
    [][(/\ agent \in {"Director", "Widgets"}
        /\ \E i \in DOMAIN queue : IsFinal(queue[i]))
       => queue' = queue]_vars

\* C2: when selection returned WidgetsAgent and the downstream transport raised
\* on the first streaming call (before any chunk), the request ends with exactly
\* one event besides the Task object and the "working" progress event, that
\* event's message contains "Error processing request" and the exception text,
\* and send_message_streaming was called once.
C2_TransportFailureSingleEvent ==
    (/\ agent = "Director"
     /\ epc = "done"
     /\ agent_choice = Some("WidgetsAgent")
     /\ chunksSeen = 0
     /\ downstreamRaised # None)
    => LET evs == SelectSeq(queue, LAMBDA e :
                      e.type # "task" /\ ~(e.type = "status" /\ e.state = "working"))
       IN  /\ Len(evs) = 1
           /\ IsStatus(evs[1])
           /\ evs[1].message # None
           /\ Contains(evs[1].message[1].text, "Error processing request")
           /\ Contains(evs[1].message[1].text, downstreamRaised[1])
           /\ Len(streamCalls) = 1

\* the states the claim's three equivalences allow for an update
StatesByFlags(u) ==
    {s \in {"working", "input_required", "completed"} :
        /\ (s = "working") <=> (~u.is_task_complete /\ ~u.require_user_input)
        /\ (s = "input_required") <=> u.require_user_input
        /\ (s = "completed") <=> (u.is_task_complete /\ ~u.require_user_input)}

\* C3: every update is translated by exactly one branch, chosen by its two
\* flags: once the updates yielded so far are handled, the queue holds one
\* status event per update, in order, whose state is working iff both flags
\* are false, input_required iff require_user_input, completed iff
\* is_task_complete and not require_user_input; artifacts only for the last.
C3_OneBranchPerUpdate ==
    item = None =>
        LET st == SelectSeq(queue, IsStatus)
        IN  /\ Len(st) = Len(yielded)
            /\ \A i \in DOMAIN yielded : StatesByFlags(yielded[i]) = {st[i].state}
            /\ Len(SelectSeq(queue, IsArtifact))
                  = Len(SelectSeq(yielded, IsCompletedUpdate))

\* C3 witness: a finished request whose stream held an update with both flags
\* set and one with only is_task_complete set
C3_Witness ==
    /\ epc = "done"
    /\ \E i, j \in DOMAIN yielded :
          /\ yielded[i].is_task_complete /\ yielded[i].require_user_input
          /\ yielded[j].is_task_complete /\ ~yielded[j].require_user_input

\* C4: a completed update puts exactly two adjacent events on the queue: the
\* artifact event (append=false, last_chunk=true, the update's content as its
\* text) and right after it the status event (completed, final, no message);
\* no completed status event stands anywhere else.
C4_CompletedArtifactThenStatus ==
    LET n == Len(queue)
    IN  /\ \A i \in 1..n : IsArtifact(queue[i]) =>
              /\ queue[i].append = FALSE
              /\ queue[i].last_chunk = TRUE
              /\ i = n => epc = "completed_status"
              /\ i < n => /\ IsStatus(queue[i + 1])
                          /\ queue[i + 1].state = "completed"
        /\ \A i \in 1..n : (IsStatus(queue[i]) /\ queue[i].state = "completed") =>
              /\ i > 1
              /\ IsArtifact(queue[i - 1])
              /\ queue[i].final = TRUE
              /\ queue[i].message = None
        /\ epc = "completed_status" => (n > 0 /\ IsArtifact(queue[n]))
        /\ item = None =>
              LET arts == SelectSeq(queue, IsArtifact)
                  done == SelectSeq(yielded, IsCompletedUpdate)
              IN  /\ Len(arts) = Len(done)
                  /\ \A k \in DOMAIN arts : arts[k].artifact.text = done[k].content

\* C4 witness: a finished request with two completed updates translated
C4_Witness ==
    /\ epc = "done"
    /\ Len(SelectSeq(queue, IsArtifact)) = 2
    /\ Len(SelectSeq(queue, LAMBDA e : IsStatus(e) /\ e.state = "completed")) = 2

\* what the claims expect on the queue, written out field by field
ExpectedMessage(text) ==
    Some([role |-> "agent", text |-> text,
          context_id |-> RequestTask.context_id, task_id |-> RequestTask.id])

ExpectedStatus(state, message, final) ==
    [type |-> "status", state |-> state, message |-> message, final |-> final,
     context_id |-> RequestTask.context_id, task_id |-> RequestTask.id]

ExpectedArtifact(text) ==
    [type |-> "artifact", append |-> FALSE, last_chunk |-> TRUE,
     artifact |-> [name |-> "current_result",
                   description |-> "Result of request to agent.", text |-> text],
     context_id |-> RequestTask.context_id, task_id |-> RequestTask.id]

\* the queue without the Task object
NonTaskEvents == SelectSeq(queue, LAMBDA e : e.type # "task")

\* a Task object is on the queue only as its first entry, and only when the
\* request context had no current task
TaskObjectOnlyFirst ==
    /\ \A i \in DOMAIN queue : queue[i].type = "task" => (i = 1 /\ current_task = None)
    /\ (current_task = None /\ queue # <<>>) => queue[1].type = "task"

C5_Stream == <<Update(FALSE, FALSE, "A"), Update(TRUE, FALSE, "B")>>

C5_Events ==
    << ExpectedStatus("working", ExpectedMessage("A"), FALSE),
       ExpectedArtifact("B"),
       ExpectedStatus("completed", None, TRUE) >>

C5_Ran == agent = "Stub" /\ epc = "done" /\ yielded = C5_Stream

\* C5 as stated: for the stream [working "A", complete "B"] the queue holds the
\* working status event "A", the artifact event "B" and the completed status
\* event, in this order, and nothing else.
C5_ExactlyThreeEvents == C5_Ran => queue = C5_Events

\* C5 amended: for the stream [working "A", complete "B"] the status and
\* artifact events on the queue are exactly the working status event "A", the
\* artifact event "B" and the completed status event, in this order; the only
\* other entry is the new Task object, first, when the request context had no
\* current task.
C5_ThreeEventsAfterTask ==
    C5_Ran => (NonTaskEvents = C5_Events /\ TaskObjectOnlyFirst)

\* C5 witness: the stream has run to its end in a context without current task
C5_Witness == C5_Ran /\ current_task = None /\ Len(queue) = 4

C6_Stream == <<Update(FALSE, TRUE, "need more")>>

C6_Ran == agent = "Stub" /\ epc = "done" /\ yielded = C6_Stream

\* every update with require_user_input is translated to one status event
\* (input_required, final, the content as message), not preceded by an artifact
C6_PerUpdate ==
    item = None =>
        LET evs == SelectSeq(queue, LAMBDA e : IsStatus(e) /\ e.state = "input_required")
            ups == SelectSeq(yielded, LAMBDA u : u.require_user_input)
        IN  /\ Len(evs) = Len(ups)
            /\ \A k \in DOMAIN evs :
                  evs[k] = ExpectedStatus("input_required",
                                          ExpectedMessage(ups[k].content), TRUE)
            /\ \A i \in DOMAIN queue :
                  (IsStatus(queue[i]) /\ queue[i].state = "input_required" /\ i > 1)
                      => ~IsArtifact(queue[i - 1])

\* C6 as stated: each input_required update gives exactly one status event
\* (input_required, final=true, the content as message) and no artifact event,
\* and for the stream [input_required "need more"] that event is all the queue
\* holds.
C6_OnlyTerminalStatus ==
    /\ C6_PerUpdate
    /\ C6_Ran => queue = <<ExpectedStatus("input_required",
                                          ExpectedMessage("need more"), TRUE)>>

\* C6 amended: each input_required update gives exactly one status event
\* (input_required, final=true, the content as message) and no artifact event;
\* for the stream [input_required "need more"] that event is the only status or
\* artifact event on the queue, preceded only by the new Task object when the
\* request context had no current task.
C6_TerminalStatusAfterTask ==
    /\ C6_PerUpdate
    /\ C6_Ran => /\ NonTaskEvents = <<ExpectedStatus("input_required",
                                                     ExpectedMessage("need more"), TRUE)>>
                 /\ TaskObjectOnlyFirst

\* C6 witness: the stream has run to its end in a context without current task
C6_Witness == C6_Ran /\ current_task = None /\ Len(queue) = 2

\* C7: every update with both flags false is translated to exactly one status
\* event (working, final=false, the content as message) and no artifact event:
\* the working status events are those of the working updates, in order, none
\* follows an artifact, and the queue holds one entry per update plus one more
\* per completed update (and the Task object).
C7_WorkingOneStatusEvent ==
    item = None =>
        LET evs == SelectSeq(queue, LAMBDA e : IsStatus(e) /\ e.state = "working")
            ups == SelectSeq(yielded, LAMBDA u :
                       ~u.is_task_complete /\ ~u.require_user_input)
        IN  /\ Len(evs) = Len(ups)
            /\ \A k \in DOMAIN evs :
                  evs[k] = ExpectedStatus("working", ExpectedMessage(ups[k].content), FALSE)
            /\ \A i \in DOMAIN queue :
                  (IsStatus(queue[i]) /\ queue[i].state = "working" /\ i > 1)
                      => ~IsArtifact(queue[i - 1])
            /\ Len(queue) = Len(SelectSeq(queue, LAMBDA e : e.type = "task"))
                              + Len(yielded) + Len(SelectSeq(yielded, IsCompletedUpdate))

\* C7 witness: a finished request with two working updates translated
C7_Witness ==
    /\ epc = "done"
    /\ Len(yielded) = 2
    /\ \A i \in DOMAIN yielded :
          ~yielded[i].is_task_complete /\ ~yielded[i].require_user_input
    /\ Len(NonTaskEvents) = 2

\* C8: every request to the director, whatever initialization, selection and
\* the downstream stream do, comes to its end with at least one update yielded
\* by DirectorAgent.stream and at least one status event on the queue.
C8_DirectorAlwaysAnswers ==
    (agent = "Director") =>
        <>(/\ epc = "done"
           /\ apc = "end"
           /\ Len(yielded) >= 1
           /\ \E i \in DOMAIN queue : IsStatus(queue[i]))

\* C8 witness: a finished director request whose downstream stream was opened
\* and ended without a chunk
C8_Witness ==
    /\ agent = "Director"
    /\ epc = "done"
    /\ Len(streamCalls) = 1
    /\ chunksSeen = 0
    /\ downstreamRaised = None

\* C9: once _select_agent has raised, the stream holds the progress update and
\* exactly one more update, require_user_input=true and not complete, whose
\* content is "Error processing request: " followed by the error text; no
\* streaming call is made, no agent is chosen, and _select_agent was called once.
C9_SelectionFailure ==
    (agent = "Director" /\ selectionError # None) =>
        /\ selectCalls = 1
        /\ streamCalls = <<>>
        /\ agent_choice = None
        /\ yielded = << [is_task_complete |-> FALSE, require_user_input |-> FALSE,
                         content |-> "Processing request..."],
                        [is_task_complete |-> FALSE, require_user_input |-> TRUE,
                         content |-> "Error processing request: " \o selectionError[1]] >>

\* C9 witness: a finished director request whose selection raised
C9_Witness ==
    /\ agent = "Director"
    /\ epc = "done"
    /\ selectionError = Some("agent selection failed")

\* C10: once _select_agent has answered an id other than "WidgetsAgent", no
\* streaming call is ever made and no chunk read, no update with
\* is_task_complete is yielded, and the last update of the stream has
\* require_user_input=true and a content containing "Unknown agent_id: <id>".
C10_UnknownAgentFailsClosed ==
    (agent = "Director" /\ agent_choice # None /\ agent_choice[1] # "WidgetsAgent") =>
        /\ streamCalls = <<>>
        /\ chunksSeen = 0
        /\ \A i \in DOMAIN yielded : ~yielded[i].is_task_complete
        /\ yielded # <<>>
        /\ yielded[Len(yielded)].require_user_input
        /\ Contains(yielded[Len(yielded)].content, "Unknown agent_id: " \o agent_choice[1])

\* C10 witness: a finished director request whose selection answered "UNKNOWN"
C10_Witness ==
    /\ agent = "Director"
    /\ epc = "done"
    /\ agent_choice = Some("UNKNOWN")

-----------------------------------------------------------------------------
(* The chunk loop: DirectorAgent.stream and websocket_endpoint *)

\* a part with kind "text" and a non-empty text
Qualifies(p) == p.kind = "text" /\ p.text # None /\ p.text[1] # ""

\* the payload has a result whose lastChunk is true
HasLastChunk(chunk) == chunk.result # None /\ chunk.result[1].lastChunk = Some(TRUE)

\* the parts under result.artifact (none when there is no such artifact)
ResultParts(chunk) ==
    IF chunk.result # None /\ chunk.result[1].artifact # None
    THEN chunk.result[1].artifact[1] ELSE <<>>

\* the parts of the top-level artifact
TopLevelParts(chunk) == IF chunk.artifact # None THEN chunk.artifact[1] ELSE <<>>

HasQualifying(parts) == \E i \in DOMAIN parts : Qualifies(parts[i])

\* the text of the first qualifying part of a list that has one
FirstQualifying(parts) ==
    LET i == CHOOSE k \in DOMAIN parts :
                /\ Qualifies(parts[k])
                /\ \A j \in 1..(k - 1) : ~Qualifies(parts[j])
    IN  parts[i].text[1]

\* the director's run went through selection and the downstream stream and
\* came to its end without an exception
DirectorStreamEnded ==
    /\ agent = "Director"
    /\ epc = "done"
    /\ agent_choice # None
    /\ Len(streamCalls) = 1
    /\ downstreamRaised = None

LocatedParts(chunk) ==
    IF chunk.result # None /\ chunk.result[1].artifact # None
    THEN ResultParts(chunk) ELSE TopLevelParts(chunk)

\* the chunk the director's loop has just taken, and the web endpoint's
DirectorChunk == chunks[Len(chunks)]

WebChunk == wchunks[Len(wchunks)]

\* the director's loop has taken a chunk and stands after it
DirectorAfterChunk == agent = "Director" /\ chunks # <<>>

\* the web endpoint's loop has taken a chunk and stands after it
WebAfterChunk == agent = "Web" /\ wpc = "streaming" /\ wchunks # <<>>

\* C12: for every chunk payload whose result has lastChunk true and whose
\* artifact has a part of kind "text" with a non-empty text, the content
\* extracted (the director's `content` after the chunk, the content of the
\* fragment the web endpoint sends for it) is the text of the first such part in
\* list order.
C12_FirstQualifyingPart ==
    /\ (/\ DirectorAfterChunk
        /\ HasLastChunk(DirectorChunk)
        /\ HasQualifying(LocatedParts(DirectorChunk)))
       => content = FirstQualifying(LocatedParts(DirectorChunk))
    /\ (/\ WebAfterChunk
        /\ HasLastChunk(WebChunk)
        /\ HasQualifying(LocatedParts(WebChunk)))
       => /\ wsent # <<>>
          /\ wsent[Len(wsent)] =
                [kind |-> "messages.html", text |-> FirstQualifying(LocatedParts(WebChunk))]

\* C13: when the chunk's result has a truthy lastChunk and no artifact, and
\* the chunk has a top-level artifact with a text part of non-empty text, the
\* director's content after the chunk is that part's text, not the serialized
\* payload.
C13_TopLevelArtifactText ==
    (/\ DirectorAfterChunk
     /\ HasLastChunk(DirectorChunk)
     /\ DirectorChunk.result[1].artifact = None
     /\ HasQualifying(TopLevelParts(DirectorChunk)))
    => /\ content = FirstQualifying(TopLevelParts(DirectorChunk))
       /\ ~Contains(content, "lastChunk")

\* the payload has lastChunk true and no part of kind "text" with a non-empty
\* text, neither under result.artifact nor in a top-level artifact
LacksText(chunk) ==
    /\ HasLastChunk(chunk)
    /\ ~HasQualifying(ResultParts(chunk))
    /\ ~HasQualifying(TopLevelParts(chunk))

\* the content is the serialization of the payload
IsSerialized(text, chunk) ==
    /\ text = ChunkStr(chunk)
    /\ Contains(text, "lastChunk")
    /\ text # ""

\* C14: for every chunk payload with lastChunk true and no valid text part,
\* the content extracted (the director's `content` after the chunk, the content
\* of the fragment the web endpoint sends for it) is the serialization of the
\* whole payload, which contains "lastChunk" and is not empty.
C14_FallbackSerialization ==
    /\ (DirectorAfterChunk /\ LacksText(DirectorChunk))
       => IsSerialized(content, DirectorChunk)
    /\ (WebAfterChunk /\ LacksText(WebChunk))
       => /\ wsent # <<>>
          /\ wsent[Len(wsent)].kind = "messages.html"
          /\ IsSerialized(wsent[Len(wsent)].text, WebChunk)

\* the payload has an artifact under result and a top-level artifact as well
HasBothArtifacts(chunk) ==
    /\ chunk.result # None
    /\ chunk.result[1].artifact # None
    /\ chunk.artifact # None

\* the text comes from result.artifact when it has one, and is in no case the
\* text of the top-level artifact
FromResultArtifact(text, chunk) ==
    /\ HasQualifying(ResultParts(chunk)) => text = FirstQualifying(ResultParts(chunk))
    /\ HasQualifying(TopLevelParts(chunk)) => text # FirstQualifying(TopLevelParts(chunk))

\* C15: for a chunk with lastChunk true that has both result.artifact and a
\* top-level artifact, the content extracted (the director's `content`, the
\* content of the web endpoint's fragment) is the first text of result.artifact
\* whatever the top-level artifact holds, and never the top-level artifact's text.
C15_ResultArtifactFirst ==
    /\ (DirectorAfterChunk /\ HasLastChunk(DirectorChunk) /\ HasBothArtifacts(DirectorChunk))
       => FromResultArtifact(content, DirectorChunk)
    /\ (WebAfterChunk /\ HasLastChunk(WebChunk) /\ HasBothArtifacts(WebChunk))
       => /\ wsent # <<>>
          /\ wsent[Len(wsent)].kind = "messages.html"
          /\ FromResultArtifact(wsent[Len(wsent)].text, WebChunk)

\* C15 witness: the director has taken a chunk whose result.artifact says
\* "42 newtons" and whose top-level artifact says "top"
C15_Witness ==
    /\ DirectorAfterChunk
    /\ HasLastChunk(DirectorChunk)
    /\ HasBothArtifacts(DirectorChunk)
    /\ ResultParts(DirectorChunk) = <<TextPart("42 newtons")>>
    /\ TopLevelParts(DirectorChunk) = <<TextPart("top")>>
    /\ content = "42 newtons"

\* no chunk the director has received has a truthy lastChunk
NoLastChunkSoFar == \A i \in DOMAIN chunks : ~HasLastChunk(chunks[i])

\* a step in which the director (the web endpoint) takes a chunk whose result
\* is absent or whose lastChunk is falsy
DirectorTakesNonLast ==
    /\ agent = "Director"
    /\ Len(chunks') = Len(chunks) + 1
    /\ ~HasLastChunk(chunks'[Len(chunks')])

WebTakesNonLast ==
    /\ agent = "Web"
    /\ Len(wchunks') = Len(wchunks) + 1
    /\ ~HasLastChunk(wchunks'[Len(wchunks')])

\* C16: a chunk whose result is absent, or whose lastChunk is absent or false,
\* leaves the director's content as it was and makes the web endpoint send
\* nothing; while no chunk of the stream has had a truthy lastChunk the
\* director's content is empty, and every completed update it yields is
\* "Agent <agent_id> response: ." .
C16_NonLastChunkContributesNothing ==
    /\ []((agent = "Director" /\ NoLastChunkSoFar)
            => /\ content = ""
               /\ \A k \in DOMAIN yielded :
                     yielded[k].is_task_complete
                        => yielded[k].content = "Agent " \o agent_choice[1] \o " response: .")
    /\ [][/\ DirectorTakesNonLast => content' = content
          /\ WebTakesNonLast => wsent' = wsent]_vars

\* C16 witness: a finished director run over a chunk without result and a
\* chunk with lastChunk false, whose last update is the completed one
C16_Witness ==
    /\ DirectorStreamEnded
    /\ Len(chunks) = 2
    /\ chunks[1].result = None
    /\ chunks[2].result # None
    /\ chunks[2].result[1].lastChunk = Some(FALSE)
    /\ yielded[Len(yielded)] =
          [is_task_complete |-> TRUE, require_user_input |-> FALSE,
           content |-> "Agent WidgetsAgent response: ."]

\* the chunks caused no error: the director has yielded no error update and
\* the web endpoint has sent no error markup
NoErrorSurfaced ==
    /\ (DirectorAfterChunk /\ downstreamRaised = None)
       => \A k \in DOMAIN yielded : ~yielded[k].require_user_input
    /\ WebAfterChunk => \A k \in DOMAIN wsent : wsent[k].kind # "literal"

ExtractionOf(chunk) ==
    IF HasLastChunk(chunk)
    THEN IF HasQualifying(ResultParts(chunk))
         THEN FirstQualifying(ResultParts(chunk))
         ELSE ChunkStr(chunk)
    ELSE ""

\* the extraction result of the last chunk of a sequence that has a non-empty
\* one ("" when none has)
LastNonEmpty(chs) ==
    LET I == {i \in DOMAIN chs : ExtractionOf(chs[i]) # ""}
    IN  IF I = {} THEN ""
        ELSE ExtractionOf(chs[CHOOSE i \in I : \A j \in I : j <= i])

\* C18: whatever chunks the downstream stream delivered, the content of every
\* completed update of DirectorAgent.stream is the extraction result of the
\* last chunk whose extraction is non-empty.
C18_LastNonEmptyExtraction ==
    agent = "Director" =>
        \A k \in DOMAIN yielded :
            yielded[k].is_task_complete
               => yielded[k].content =
                     "Agent " \o agent_choice[1] \o " response: " \o LastNonEmpty(chunks) \o "."

\* C19: content extraction is a function of the chunk payload alone: after a
\* chunk with a truthy lastChunk the content (the director's `content`, the
\* content of the web endpoint's fragment) is the one string that payload
\* gives, whatever was received before it, so that the same payload always
\* yields the same string.
C19_FunctionOfPayload ==
    /\ (DirectorAfterChunk /\ HasLastChunk(DirectorChunk))
       => content = ExtractionOf(DirectorChunk)
    /\ (WebAfterChunk /\ HasLastChunk(WebChunk))
       => /\ wsent # <<>>
          /\ wsent[Len(wsent)] = [kind |-> "messages.html", text |-> ExtractionOf(WebChunk)]

-----------------------------------------------------------------------------
(* Cancellation *)

\* C20: cancel can be called in every state of a request of either executor;
\* it raises "cancel not supported" and nothing else, and the step enqueues no
\* event and changes neither the task nor anything else of the request.
C20_CancelAlwaysRejected ==
    /\ [](agent # "Web" => ENABLED cancel)
    /\ [](cancelError \in {None, Some("cancel not supported")})
    /\ [][cancelError' # cancelError
            => /\ cancelError' = Some("cancel not supported")
               /\ queue' = queue
               /\ task' = task
               /\ current_task' = current_task
               /\ UNCHANGED <<epc, apc, item, yielded>>]_vars

\* C20 witness: a request in which cancel has raised stands between the
\* artifact event and the final status event of a completed update
C20_Witness ==
    /\ agent \in {"Director", "Widgets"}
    /\ cancelError = Some("cancel not supported")
    /\ epc = "completed_status"
    /\ queue # <<>>
    /\ IsArtifact(queue[Len(queue)])

-----------------------------------------------------------------------------
(* Calls of the director's collaborators *)

\* C21: in one run of DirectorAgent.stream _select_agent is called at most
\* once and send_message_streaming at most once; the streaming call is made,
\* and the stream is open, only when the one selection call has returned an
\* agent; the step that calls _select_agent finds no streaming call made and
\* makes none.
C21_SelectionThenOneStream ==
    /\ [](agent = "Director"
            => /\ selectCalls <= 1
               /\ Len(streamCalls) <= 1
               /\ (streamCalls # <<>> \/ apc = "streaming")
                     => /\ selectCalls = 1
                        /\ selectionError = None
                        /\ agent_choice # None)
    /\ [][selectCalls' # selectCalls
            => /\ streamCalls = <<>>
               /\ streamCalls' = <<>>
               /\ apc # "streaming"
               /\ apc' # "streaming"]_vars

\* C21 witness: a finished director run that selected once, opened the
\* stream once and read a chunk from it
C21_Witness ==
    /\ agent = "Director"
    /\ epc = "done"
    /\ selectCalls = 1
    /\ Len(streamCalls) = 1
    /\ chunks # <<>>

-----------------------------------------------------------------------------
(* The token of one request and the calls of another *)

\* the header maps of the downstream calls made for the request
DownstreamCalls == streamCalls \o mcpCalls

\* the values a header map gives for Authorization
AuthorizationValues(h) == {p[2] : p \in {q \in h : q[1] = "Authorization"}}

\* C22: a request that carried no authorization header (absent or empty) has
\* no token in its context and none of its downstream calls carries an
\* Authorization header, whatever token another request, handled before it or
\* while it is served, has stored in its own context
C22_NoTokenFromAnotherRequest ==
    (agent \in {"Director", "Widgets"} /\ ~Truthy(authorization))
        => /\ OAUTH_TOKEN_CTX = None
           /\ \A i \in 1..Len(DownstreamCalls) :
                 AuthorizationValues(DownstreamCalls[i]) = {}

\* a request without a token has made its downstream call after another
\* request stored a token
C22_Witness ==
    /\ agent \in {"Director", "Widgets"}
    /\ ~Truthy(authorization)
    /\ otherRequestCtx = Some("Bearer xyz")
    /\ DownstreamCalls = <<{}>>
    /\ epc = "done"

-----------------------------------------------------------------------------
(* The token from the inbound header to the downstream call *)

\* dispatch has run for the request
Dispatched == agent # "Web" /\ epc # "dispatch"

\* every downstream call made so far carries exactly the header map h
EveryCallCarries(h) == \A i \in 1..Len(DownstreamCalls) : DownstreamCalls[i] = h

\* C23 as stated: whatever value t the authorization header has, dispatch
\* stores t and the downstream call carries exactly {"Authorization": t};
\* with None or "" stored the call carries the empty header map
C23_EveryHeaderValueForwarded ==
    /\ (Dispatched /\ authorization # None)
          => /\ OAUTH_TOKEN_CTX = authorization
             /\ EveryCallCarries({<<"Authorization", authorization[1]>>})
    /\ (Dispatched /\ ~Truthy(OAUTH_TOKEN_CTX)) => EveryCallCarries({})

\* C23, amended: a non-empty header value t is stored by dispatch and carried
\* unmodified, as the only header, by the downstream call; with None or ""
\* stored the call carries the empty header map
C23_NonEmptyTokenForwarded ==
    /\ (Dispatched /\ Truthy(authorization))
          => /\ OAUTH_TOKEN_CTX = authorization
             /\ EveryCallCarries({<<"Authorization", authorization[1]>>})
    /\ (Dispatched /\ ~Truthy(OAUTH_TOKEN_CTX)) => EveryCallCarries({})

\* a request with a token has made its downstream call
C23_Witness ==
    /\ authorization = Some("Bearer abc")
    /\ OAUTH_TOKEN_CTX = Some("Bearer abc")
    /\ DownstreamCalls = <<{<<"Authorization", "Bearer abc">>}>>
    /\ epc = "done"

-----------------------------------------------------------------------------
(* A stream without updates *)

\* execute is over and the stream yielded nothing: it was empty, or it raised
\* before its first yield
EndedWithoutUpdate == agent # "Web" /\ epc \in {"done", "raised"} /\ yielded = <<>>

\* C24 as stated: a stream that yields no update leaves the event queue empty
C24_NoEventsWithoutUpdate == EndedWithoutUpdate => queue = <<>>

\* C24, amended: a stream that yields no update produces no status or artifact
\* event; the queue holds nothing but the new Task object, which execute
\* enqueues when the request context has no current task
C24_NoStatusOrArtifactWithoutUpdate ==
    EndedWithoutUpdate
        => queue = (IF current_task = None THEN <<new_task>> ELSE <<>>)

\* an empty stream has ended for a request without a current task
C24_Witness ==
    /\ agent = "Stub"
    /\ current_task = None
    /\ epc = "done"
    /\ yielded = <<>>
    /\ queue = <<new_task>>

-----------------------------------------------------------------------------
(* The task of the request *)

\* execute is past its first statements: the task is settled
TaskSettled == agent # "Web" /\ epc \notin {"dispatch", "start"}

\* the event refers to the task t
RefersTo(e, t) == e.task_id = t.id /\ e.context_id = t.context_id

\* C25: without a current task, execute creates a task from the request
\* message and enqueues that Task object first, before every status or
\* artifact event; with a current task it enqueues no Task object and every
\* event it emits refers to the existing task
C25_TaskFirstOrExistingTask ==
    /\ (agent # "Web" /\ ~TaskSettled) => queue = <<>>
    /\ (TaskSettled /\ current_task = None)
          => /\ task = Some(new_task)
             /\ queue # <<>>
             /\ queue[1] = new_task
             /\ \A i \in 2..Len(queue) : queue[i].type \in {"status", "artifact"}
    /\ (TaskSettled /\ current_task # None)
          => /\ task = current_task
             /\ \A i \in 1..Len(queue) :
                   /\ queue[i].type \in {"status", "artifact"}
                   /\ RefersTo(queue[i], current_task[1])

\* a request without a current task has run to its end: the Task object, then
\* the events of a completed run
C25_Witness ==
    /\ current_task = None
    /\ epc = "done"
    /\ Len(queue) >= 4
    /\ queue[1] = new_task
    /\ queue[Len(queue)].type = "status"

-----------------------------------------------------------------------------
(* An agent that failed to initialize *)

\* selections, downstream calls and tool calls made by the stream so far
CollaboratorCalls == selectCalls + Len(streamCalls) + Len(mcpCalls) + toolCalls

\* C26: the stream of an agent whose initialized flag is false yields exactly
\* one update, asking for user input with a content that starts with "Agent
\* initialization failed", then ends; it never yields "Processing request..."
\* and makes no selection, tool or downstream call
C26_InitializationFailure ==
    (agent \in {"Director", "Widgets"} /\ ~initialized)
        => /\ Len(yielded) <= 1
           /\ \A i \in 1..Len(yielded) :
                 /\ yielded[i].require_user_input
                 /\ StartsWith(yielded[i].content, "Agent initialization failed")
                 /\ yielded[i] # ProcessingUpdate
           /\ CollaboratorCalls = 0
           /\ apc # "start" => Len(yielded) = 1

\* the stream of an agent that failed to initialize has ended
C26_Witness ==
    /\ agent \in {"Director", "Widgets"}
    /\ ~initialized
    /\ apc = "end"
    /\ epc = "done"
    /\ Len(yielded) = 1

-----------------------------------------------------------------------------
(* Failures of the widgets agent's stream *)

\* the content names the failure: its class and, but for a raising call_tool
\* (the cause is logged, not kept), its text
NamesFailure(c, f) ==
    CASE f.kind = "connect"   -> c = "Error connecting to MCP server: " \o f.text
      [] f.kind = "tool"      -> c = "Tool call failed: " \o f.text
      [] f.kind = "other"     -> c = "Error processing request: " \o f.text
      [] f.kind = "call_tool" -> StartsWith(c, "Error processing request: ")

\* some update yielded so far is a completed one that names the failure
Surfaced(f) ==
    \E j \in 1..Len(yielded) :
        /\ yielded[j].is_task_complete
        /\ ~yielded[j].require_user_input
        /\ NamesFailure(yielded[j].content, f)

WidgetsRunEnded == agent = "Widgets" /\ initialized /\ apc = "end"

-----------------------------------------------------------------------------
(* What websocket_endpoint sends for one message *)

\* the fragments of one kind sent since the current message arrived
SentOfKind(k) == SelectSeq(wsent, LAMBDA f : f.kind = k)

\* the chunks of the current message whose result.lastChunk is truthy
SendingChunks ==
    SelectSeq(wchunks, LAMBDA c : c.result # None /\ c.result[1].lastChunk = Some(TRUE))

IsErrorMarkup(f) ==
    \E e \in ErrTexts :
        f.text = "<div class=\"msg agent\">Error contacting agent: " \o e \o "</div>"

\* C28: for the message being handled, the rendered fragments sent are one per
\* chunk whose result.lastChunk is truthy, in order, and none for another
\* chunk; a raising streaming call or iteration sends exactly one fragment,
\* the error markup, after which the handler is back at receiving; a
\* disconnect while receiving ends the handler, sends nothing and is no error
C28_FragmentsPerMessage ==
    /\ [](agent = "Web"
            => /\ Len(SentOfKind("messages.html")) = Len(SendingChunks)
               /\ \A i \in 1..Len(SendingChunks) :
                     /\ SentOfKind("messages.html")[i].text # ""
                     /\ SentOfKind("messages.html")[i].text
                           = WebChunkContent(SendingChunks[i])
               /\ Len(SentOfKind("literal")) <= 1
               /\ SentOfKind("literal") # <<>>
                     => /\ wsent[Len(wsent)].kind = "literal"
                        /\ IsErrorMarkup(wsent[Len(wsent)])
                        /\ wpc \in {"receive", "closed"})
    /\ [][/\ (Len(SentOfKind("literal"))' > Len(SentOfKind("literal")))
                => (wpc \in {"send", "streaming"} /\ wpc' = "receive")
          /\ (wpc = "receive" /\ wpc' # "receive")
                => \/ wpc' = "card"
                   \/ wpc' = "closed" /\ wsent' = wsent
          /\ wpc = "closed" => wpc' = "closed"]_vars

\* the second message: one chunk was rendered, one was not, then the stream
\* raised and the handler is receiving again
C28_Witness ==
    /\ agent = "Web"
    /\ wmessages = 2
    /\ wpc = "receive"
    /\ Len(wchunks) = 2
    /\ Len(SendingChunks) = 1
    /\ Len(wsent) = 2
    /\ wsent[1].kind = "messages.html"
    /\ wsent[2].kind = "literal"

-----------------------------------------------------------------------------
(* The updates of an initialized run of the widgets agent *)

\* the completed updates among those yielded so far
CompletedUpdates == SelectSeq(yielded, LAMBDA u : u.is_task_complete)

\* C29: an initialized run of WidgetsMCPAgent.stream yields "Processing
\* request..." first and then exactly one update, a completed one, whatever
\* the session setup, the discovery, the selection and the tool call do, a
\* raised group of a connection error and another error included
C29_ProcessingThenOneCompleted ==
    (agent = "Widgets" /\ initialized)
        => /\ yielded # <<>> => yielded[1] = ProcessingUpdate
           /\ Len(CompletedUpdates) <= 1
           /\ Len(yielded) <= 2
           /\ apc = "end" => (Len(yielded) = 2 /\ yielded[2].is_task_complete)

-----------------------------------------------------------------------------
(* The ids the events carry *)

\* the status and artifact events enqueued so far
UpdateEvents == SelectSeq(queue, LAMBDA e : e.type \in {"status", "artifact"})

\* the message of a status event, if it has one, carries the ids of t too
MessageRefersTo(e, t) ==
    (e.type = "status" /\ e.message # None)
        => (e.message[1].task_id = t.id /\ e.message[1].context_id = t.context_id)

\* C30: every status and artifact event enqueued by one execute call carries
\* one and the same task_id and context_id, those of the request's task, and
\* never those of another task
C30_EventsCarryRequestTaskIds ==
    agent # "Web"
        => \A i \in 1..Len(queue) :
              queue[i].type \in {"status", "artifact"}
                 => /\ task = Some(RequestTask)
                    /\ RefersTo(queue[i], RequestTask)
                    /\ MessageRefersTo(queue[i], RequestTask)
                    /\ \A j \in (i + 1)..Len(queue) :
                          /\ queue[j].task_id = queue[i].task_id
                          /\ queue[j].context_id = queue[i].context_id

\* a completed run for a request with a current task: a status event, an
\* artifact event and the final status event
C30_Witness ==
    /\ current_task = Some(ExistingTask)
    /\ epc = "done"
    /\ Len(UpdateEvents) >= 3
    /\ \E i \in 1..Len(UpdateEvents) : UpdateEvents[i].type = "artifact"
    /\ UpdateEvents[1].task_id = "task-0"
=============================================================================
